---- MODULE Spec2Model ----
(***************************************************************************)
(* redakt: the pattern registry (patterns, defaultPatterns,                *)
(* allPatternNames) and the engine built on it (getActivePatterns, redact, *)
(* detect).  Texts are strings; a character is a string of length one.     *)
(* Positions are counted as JavaScript counts them: position i lies        *)
(* between character i and character i+1, the first character being        *)
(* character 1 here and index 0 in the source.                             *)
(***************************************************************************)
EXTENDS Integers, Sequences, FiniteSets, TLC

(***************************************************************************)
(* Characters and the character classes the regular expressions use.       *)
(***************************************************************************)
Chr(s, i) == SubSeq(s, i, i)

Chars(s) == {Chr(s, i) : i \in 1..Len(s)}

UpperLetters == "ABCDEFGHIJKLMNOPQRSTUVWXYZ"

LowerLetters == "abcdefghijklmnopqrstuvwxyz"

Digit == Chars("0123456789")

Upper == Chars(UpperLetters)

Lower == Chars(LowerLetters)

Alnum == Upper \cup Lower \cup Digit

\* \w
Word == Alnum \cup {"_"}

\* \s, as far as the texts of this model go: space, tab, line feed, carriage return
Space == {" ", "\t", "\n", "\r"}

Hex == Digit \cup Chars("abcdefABCDEF")

\* Canonicalize of the i flag: an upper-case letter folds to its lower-case one
LowerOf ==
  [c \in Upper |->
     Chr(LowerLetters, CHOOSE k \in 1..Len(UpperLetters) : Chr(UpperLetters, k) = c)]

ToLower(c) == IF c \in Upper THEN LowerOf[c] ELSE c

\* whether w is the literal, up to the case of the letters when ci holds
SameText(w, literal, ci) ==
  IF ci
    THEN /\ Len(w) = Len(literal)
         /\ \A k \in 1..Len(w) : ToLower(Chr(w, k)) = ToLower(Chr(literal, k))
    ELSE w = literal

(***************************************************************************)
(* Regular expressions as syntax trees.                                    *)
(*   Cls(S)   a character of S            NCls(S)  a character not in S    *)
(*   Lit(w)   the characters of w         WB       \b                      *)
(*   Cat(rs)  rs[1] rs[2] ...             Alt(rs)  rs[1] | rs[2] | ...     *)
(*   Rep(r, min, max, greedy)  r{min,max}, max = Inf for no upper limit,   *)
(*                             greedy = FALSE for the lazy form r{..}?     *)
(***************************************************************************)
Inf == -1

Cls(S) == [t |-> "cls", neg |-> FALSE, set |-> S]

NCls(S) == [t |-> "cls", neg |-> TRUE, set |-> S]

Lit(w) == [t |-> "lit", s |-> w]

WB == [t |-> "wb"]

Cat(rs) == [t |-> "cat", rs |-> rs]

Alt(rs) == [t |-> "alt", rs |-> rs]

Rep(r, min, max, greedy) == [t |-> "rep", r |-> r, min |-> min, max |-> max, greedy |-> greedy]

Opt(r) == Rep(r, 0, 1, TRUE)

Plus(r) == Rep(r, 1, Inf, TRUE)

Star(r) == Rep(r, 0, Inf, TRUE)

Times(r, n) == Rep(r, n, n, TRUE)

(***************************************************************************)
(* The backtracking matcher.  EndsFrom(r, ci, s, starts) is the sequence   *)
(* of the positions at which a match of r that starts at one of the        *)
(* positions starts of s can end, in the order in which backtracking       *)
(* reaches them (the starts in their order, and from each start the        *)
(* choices of r in the order of their priority), each position once.  The  *)
(* first end of the whole regular expression from a start is the end of    *)
(* the match the engine reports there.  ci is the i flag.                  *)
(***************************************************************************)
InCls(r, c) == IF r.neg THEN c \notin r.set ELSE c \in r.set

IsWordChar(s, i) == i >= 1 /\ i <= Len(s) /\ Chr(s, i) \in Word

\* acc followed by the positions of xs that acc does not hold yet
AddNew(acc, xs) == acc \o SelectSeq(xs, LAMBDA e : \A j \in 1..Len(acc) : acc[j] # e)

\* every position moved n characters on
Shift(ps, n) == [k \in 1..Len(ps) |-> ps[k] + n]

\* the first of the characters lo..hi of s that is not in the class, 0 if none
RECURSIVE FirstOutside(_, _, _, _)
FirstOutside(r, s, lo, hi) ==
  IF lo > hi
    THEN 0
    ELSE IF lo = hi
      THEN IF InCls(r, Chr(s, lo)) THEN 0 ELSE lo
      ELSE LET mid == (lo + hi) \div 2
               left == FirstOutside(r, s, lo, mid)
           IN IF left # 0 THEN left ELSE FirstOutside(r, s, mid + 1, hi)

\* how many characters from position i on are in the class, at most cap of them
RunLen(r, s, i, cap) ==
  LET hi == IF cap # Inf /\ i + cap < Len(s) THEN i + cap ELSE Len(s)
      out == FirstOutside(r, s, i + 1, hi)
  IN IF out = 0 THEN hi - i ELSE out - 1 - i

\* the ends of class{min,max} from position i: the longest run first when greedy
RunEnds(r, min, max, greedy, s, i) ==
  LET n == RunLen(r, s, i, max)
  IN IF n < min
       THEN <<>>
       ELSE [k \in 1..(n - min + 1) |->
               IF greedy THEN i + n - (k - 1) ELSE i + min + (k - 1)]

RECURSIVE EndsFrom(_, _, _, _)
EndsFrom(r, ci, s, starts) ==
  IF starts = <<>>
    THEN <<>>
    ELSE IF r.t = "cls"
      THEN Shift(SelectSeq(starts, LAMBDA p : p < Len(s) /\ InCls(r, Chr(s, p + 1))), 1)
    ELSE IF r.t = "lit"
      THEN Shift(SelectSeq(starts, LAMBDA p :
                   /\ p + Len(r.s) <= Len(s)
                   /\ SameText(SubSeq(s, p + 1, p + Len(r.s)), r.s, ci)), Len(r.s))
    ELSE IF r.t = "wb"
      THEN SelectSeq(starts, LAMBDA p : IsWordChar(s, p) # IsWordChar(s, p + 1))
    ELSE IF r.t = "cat"
      THEN IF r.rs = <<>>
             THEN starts
             ELSE EndsFrom(Cat(Tail(r.rs)), ci, s, EndsFrom(Head(r.rs), ci, s, starts))
    ELSE IF Len(starts) > 1
      THEN LET mid == Len(starts) \div 2
           IN AddNew(EndsFrom(r, ci, s, SubSeq(starts, 1, mid)),
                     EndsFrom(r, ci, s, SubSeq(starts, mid + 1, Len(starts))))
    ELSE IF r.t = "alt"
      THEN IF r.rs = <<>>
             THEN <<>>
             ELSE AddNew(EndsFrom(Head(r.rs), ci, s, starts),
                         EndsFrom(Alt(Tail(r.rs)), ci, s, starts))
    ELSE IF r.max = 0
      THEN starts
    ELSE IF r.r.t = "cls"
      THEN RunEnds(r.r, r.min, r.max, r.greedy, s, starts[1])
    ELSE LET once == SelectSeq(EndsFrom(r.r, ci, s, starts), LAMBDA e : e > starts[1])
             rest == Rep(r.r, IF r.min > 0 THEN r.min - 1 ELSE 0,
                         IF r.max = Inf THEN Inf ELSE r.max - 1, r.greedy)
             more == EndsFrom(rest, ci, s, once)
         IN IF r.min > 0
              THEN more
              ELSE IF r.greedy THEN AddNew(more, starts) ELSE AddNew(starts, more)

Ends(r, ci, s, i) == EndsFrom(r, ci, s, <<i>>)

(***************************************************************************)
(* RegExp objects and the String methods the engine calls on them.         *)
(***************************************************************************)
RegExp(source, flags) == [source |-> source, flags |-> flags]

FlagsG == [g |-> TRUE, i |-> FALSE]

FlagsGI == [g |-> TRUE, i |-> TRUE]

FlagsNone == [g |-> FALSE, i |-> FALSE]

NoMatch == [index |-> -1, end |-> -1]

\* the match found at position i, es being the ends of the regex from i
MatchAt(i, es) == IF es # <<>> THEN [index |-> i, end |-> es[1]] ELSE NoMatch

\* the leftmost match that starts at one of the positions lo..hi, if any
RECURSIVE FirstMatch(_, _, _, _)
FirstMatch(regex, s, lo, hi) ==
  IF lo > hi
    THEN NoMatch
    ELSE IF lo = hi
      THEN MatchAt(lo, Ends(regex.source, regex.flags.i, s, lo))
      ELSE LET mid == (lo + hi) \div 2
               left == FirstMatch(regex, s, lo, mid)
           IN IF left # NoMatch THEN left ELSE FirstMatch(regex, s, mid + 1, hi)

\* RegExpBuiltinExec from lastIndex: the leftmost match at or after it
Exec(regex, s, lastIndex) == FirstMatch(regex, s, lastIndex, Len(s))

\* the successive matches of a scan from lastIndex: all of them under the g flag,
\* else the first; an empty match moves lastIndex one character on
RECURSIVE Scan(_, _, _)
ScanFrom(regex, s, m) ==
  IF m = NoMatch
    THEN <<>>
    ELSE IF ~regex.flags.g
      THEN <<m>>
      ELSE <<m>> \o Scan(regex, s, IF m.end = m.index THEN m.end + 1 ELSE m.end)

Scan(regex, s, lastIndex) == ScanFrom(regex, s, Exec(regex, s, lastIndex))

Matched(s, m) == SubSeq(s, m.index + 1, m.end)

MatchedAll(s, ms) == [k \in 1..Len(ms) |-> Matched(s, ms[k])]

\* text.match(regex) || []
StringMatch(s, regex) == MatchedAll(s, Scan(regex, s, 0))

\* s with the matches ms[k..] replaced by reps[k..], from position from on
RECURSIVE Splice(_, _, _, _, _)
Splice(s, ms, reps, k, from) ==
  IF k > Len(ms)
    THEN SubSeq(s, from + 1, Len(s))
    ELSE SubSeq(s, from + 1, ms[k].index) \o reps[k] \o Splice(s, ms, reps, k + 1, ms[k].end)

SpliceAll(s, ms, newSubstr) == Splice(s, ms, [k \in 1..Len(ms) |-> newSubstr], 1, 0)

\* s.replace(regex, string): the replacement has no $ patterns
StringReplace(s, regex, newSubstr) == SpliceAll(s, Scan(regex, s, 0), newSubstr)

(***************************************************************************)
(* The registry: patterns, in the order the object literal lists its keys. *)
(* Each entry holds the name (the key), the regex, the description and the *)
(* priority; the replace function of each entry is PatternReplace below.   *)
(***************************************************************************)
AnyChar == NCls({})

KeyType == Opt(Alt(<<Lit("RSA "), Lit("DSA "), Lit("EC "), Lit("OPENSSH ")>>))

privateKeyRegex ==
  RegExp(Cat(<<Lit("-----BEGIN "), KeyType, Lit("PRIVATE KEY-----"),
               Rep(AnyChar, 1, Inf, FALSE),
               Lit("-----END "), KeyType, Lit("PRIVATE KEY-----")>>), FlagsG)

jwtRegex ==
  RegExp(Cat(<<WB, Lit("eyJ"), Plus(Cls(Alnum \cup Chars("-_"))),
               Lit(".eyJ"), Plus(Cls(Alnum \cup Chars("-_"))),
               Lit("."), Plus(Cls(Alnum \cup Chars("-_.+/=")))>>), FlagsG)

urlWithCredsRegex ==
  RegExp(Cat(<<Alt(<<Cat(<<Lit("http"), Opt(Lit("s"))>>), Lit("ftp")>>), Lit("://"),
               Plus(NCls(Space \cup {":"})), Lit(":"),
               Plus(NCls(Space \cup {"@"})), Lit("@"),
               Plus(NCls(Space))>>), FlagsGI)

\* the regex of the replace function of urlWithCreds
credentialsRegex ==
  RegExp(Cat(<<Lit("://"), Plus(NCls(Space \cup {":"})), Lit(":"),
               Plus(NCls(Space \cup {"@"})), Lit("@")>>), FlagsNone)

githubTokenRegex ==
  RegExp(Cat(<<WB, Alt(<<Lit("ghp"), Lit("gho"), Lit("ghu"), Lit("ghs"), Lit("ghr")>>),
               Lit("_"), Rep(Cls(Alnum), 36, Inf, TRUE), WB>>), FlagsG)

slackTokenRegex ==
  RegExp(Cat(<<WB, Lit("xox"), Cls(Chars("baprs")), Lit("-"), Plus(Cls(Digit)),
               Lit("-"), Plus(Cls(Digit)), Lit("-"), Plus(Cls(Alnum)), WB>>), FlagsG)

awsKeyRegex ==
  RegExp(Cat(<<WB,
               Alt(<<Cat(<<Lit("A3T"), Cls(Upper \cup Digit)>>), Lit("AKIA"), Lit("AGPA"),
                     Lit("AIDA"), Lit("AROA"), Lit("AIPA"), Lit("ANPA"), Lit("ANVA"),
                     Lit("ASIA")>>),
               Times(Cls(Upper \cup Digit), 16), WB>>), FlagsG)

bearerTokenRegex ==
  RegExp(Cat(<<WB, Alt(<<Lit("Bearer"), Lit("Basic")>>), Plus(Cls(Space)),
               Plus(Cls(Alnum \cup Chars("-_="))), Opt(Lit(".")),
               Star(Cls(Alnum \cup Chars("-_="))), Opt(Lit(".")),
               Star(Cls(Alnum \cup Chars("-_.+/=")))>>), FlagsGI)

creditCardRegex ==
  RegExp(Cat(<<WB,
               Alt(<<Cat(<<Lit("4"), Times(Cls(Digit), 12), Opt(Times(Cls(Digit), 3))>>),
                     Cat(<<Lit("5"), Cls(Chars("12345")), Times(Cls(Digit), 14)>>),
                     Cat(<<Lit("3"), Cls(Chars("47")), Times(Cls(Digit), 13)>>),
                     Cat(<<Lit("6"),
                           Alt(<<Lit("011"), Cat(<<Lit("5"), Times(Cls(Digit), 2)>>)>>),
                           Times(Cls(Digit), 12)>>),
                     Cat(<<Times(Cls(Digit), 4), Opt(Cls(Chars("- "))),
                           Times(Cls(Digit), 4), Opt(Cls(Chars("- "))),
                           Times(Cls(Digit), 4), Opt(Cls(Chars("- "))),
                           Times(Cls(Digit), 4)>>)>>),
               WB>>), FlagsG)

ssnRegex ==
  RegExp(Alt(<<Cat(<<WB, Times(Cls(Digit), 3), Lit("-"), Times(Cls(Digit), 2), Lit("-"),
                     Times(Cls(Digit), 4), WB>>),
               Cat(<<WB, Times(Cls(Digit), 3), Cls(Space), Times(Cls(Digit), 2),
                     Cls(Space), Times(Cls(Digit), 4), WB>>)>>), FlagsG)

emailRegex ==
  RegExp(Cat(<<WB, Plus(Cls(Alnum \cup Chars("._%+-"))), Lit("@"),
               Plus(Cls(Alnum \cup Chars(".-"))), Lit("."),
               Rep(Cls(Upper \cup Lower \cup {"|"}), 2, Inf, TRUE), WB>>), FlagsG)

phoneRegex ==
  RegExp(Cat(<<WB,
               Opt(Cat(<<Opt(Lit("+")), Lit("1"), Opt(Cls(Chars("-.") \cup Space))>>)),
               Opt(Lit("(")), Times(Cls(Digit), 3), Opt(Lit(")")),
               Cls(Chars("-.") \cup Space), Times(Cls(Digit), 3),
               Cls(Chars("-.") \cup Space), Times(Cls(Digit), 4), WB>>), FlagsG)

\* 25[0-5]|2[0-4][0-9]|[01]?[0-9][0-9]?
Octet ==
  Alt(<<Cat(<<Lit("25"), Cls(Chars("012345"))>>),
        Cat(<<Lit("2"), Cls(Chars("01234")), Cls(Digit)>>),
        Cat(<<Opt(Cls(Chars("01"))), Cls(Digit), Opt(Cls(Digit))>>)>>)

ipv4Regex ==
  RegExp(Cat(<<WB, Times(Cat(<<Octet, Lit(".")>>), 3), Octet, WB>>), FlagsG)

\* [0-9a-fA-F]{1,4}
Hextet == Rep(Cls(Hex), 1, 4, TRUE)

ipv6Regex ==
  RegExp(Alt(<<Cat(<<WB, Times(Cat(<<Hextet, Lit(":")>>), 7), Hextet, WB>>),
               Cat(<<WB, Rep(Cat(<<Hextet, Lit(":")>>), 1, 7, TRUE), Lit(":"), WB>>),
               Cat(<<WB, Rep(Cat(<<Hextet, Lit(":")>>), 1, 6, TRUE), Lit(":"), Hextet,
                     WB>>)>>), FlagsG)

awsSecretRegex == RegExp(Cat(<<WB, Times(Cls(Alnum \cup Chars("/+=")), 40), WB>>), FlagsG)

hexSecretRegex == RegExp(Cat(<<WB, Rep(Cls(Hex), 32, Inf, TRUE), WB>>), FlagsG)

Pattern(name, regex, description, priority) ==
  [name |-> name, regex |-> regex, description |-> description, priority |-> priority]

patterns ==
  << Pattern("privateKey", privateKeyRegex, "Private keys (PEM format)", 10),
     Pattern("jwt", jwtRegex, "JSON Web Tokens", 20),
     Pattern("urlWithCreds", urlWithCredsRegex, "URLs containing credentials", 25),
     Pattern("githubToken", githubTokenRegex, "GitHub personal access tokens", 30),
     Pattern("slackToken", slackTokenRegex, "Slack tokens", 35),
     Pattern("awsKey", awsKeyRegex, "AWS Access Key IDs", 40),
     Pattern("bearerToken", bearerTokenRegex, "Bearer/Basic auth tokens", 45),
     Pattern("creditCard", creditCardRegex, "Credit card numbers", 50),
     Pattern("ssn", ssnRegex, "Social Security Numbers", 55),
     Pattern("email", emailRegex, "Email addresses", 60),
     Pattern("phone", phoneRegex, "Phone numbers (US format)", 70),
     Pattern("ipv4", ipv4Regex, "IPv4 addresses", 80),
     Pattern("ipv6", ipv6Regex, "IPv6 addresses", 85),
     Pattern("awsSecret", awsSecretRegex, "AWS Secret Access Keys", 90),
     Pattern("hexSecret", hexSecretRegex, "Hex-encoded secrets/hashes (32+ chars)", 100) >>

\* a faulty variant of lines 325-337 that also enables awsKey, listed last
defaultPatternsAndAwsKey ==
  << "privateKey", "jwt", "urlWithCreds", "githubToken", "slackToken", "bearerToken",
     "creditCard", "ssn", "email", "phone", "ipv4", "awsKey" >>

defaultPatterns ==
  << "privateKey", "jwt", "urlWithCreds", "githubToken", "slackToken", "bearerToken",
     "creditCard", "ssn", "email", "phone", "ipv4" >>

\* Object.keys(patterns)
allPatternNames == [k \in 1..Len(patterns) |-> patterns[k].name]

\* a faulty threshold, one more than that of line 298
MinUniqueCharsAndOne == 15 + 1

\* the entropy threshold of awsSecret's replace function
MinUniqueChars == 15

\* the length threshold of hexSecret's replace function
MinHexLength == 32

\* patterns[name].replace(match), name a key of patterns
PatternReplace(name, match) ==
  CASE name = "privateKey" -> "[PRIVATE_KEY]"
    [] name = "jwt" -> "[JWT]"
    [] name = "urlWithCreds" -> StringReplace(match, credentialsRegex, "://[REDACTED]@")
    [] name = "githubToken" -> "[GITHUB_TOKEN]"
    [] name = "slackToken" -> "[SLACK_TOKEN]"
    [] name = "awsKey" -> "[AWS_KEY]"
    [] name = "bearerToken" -> "[AUTH_TOKEN]"
    [] name = "creditCard" -> "[CREDIT_CARD]"
    [] name = "ssn" -> "[SSN]"
    [] name = "email" -> "[EMAIL]"
    [] name = "phone" -> "[PHONE]"
    [] name = "ipv4" -> "[IPv4]"
    [] name = "ipv6" -> "[IPv6]"
    [] name = "awsSecret" ->
         IF Cardinality(Chars(match)) > MinUniqueChars THEN "[AWS_SECRET]" ELSE match
    [] name = "hexSecret" ->
         IF Len(match) >= MinHexLength THEN "[HEX_SECRET]" ELSE match

(***************************************************************************)
(* JavaScript values.  A text argument is a value with a type; null and    *)
(* undefined are values of their own.  An object used as a map (byType,    *)
(* matches) is a function whose domain is its set of keys.                 *)
(***************************************************************************)
Null == [type |-> "null"]

Undefined == [type |-> "undefined"]

Str(w) == [type |-> "string", value |-> w]

Num(n) == [type |-> "number", value |-> n]

\* typeof v
TypeOf(v) == IF v.type = "null" THEN "object" ELSE v.type

EmptyObject == <<>>

HasKey(obj, key) == key \in DOMAIN obj

\* obj[key] = value
SetKey(obj, key, value) == (key :> value) @@ obj

\* arr.includes(x)
Includes(arr, x) == \E k \in 1..Len(arr) : arr[k] = x

\* arr.join(sep)
RECURSIVE Join(_, _)
Join(arr, sep) ==
  IF arr = <<>>
    THEN ""
    ELSE IF Len(arr) = 1 THEN arr[1] ELSE arr[1] \o sep \o Join(Tail(arr), sep)

TypeError(message) == [type |-> "TypeError", message |-> message]

Error(message) == [type |-> "Error", message |-> message]

\* the properties every object literal inherits from Object.prototype
ObjectPrototypeKeys ==
  {"constructor", "toString", "toLocaleString", "valueOf", "hasOwnProperty",
   "isPrototypeOf", "propertyIsEnumerable", "__proto__", "__defineGetter__",
   "__defineSetter__", "__lookupGetter__", "__lookupSetter__"}

Inherited == [type |-> "inherited"]

\* patterns[p]: the entry of key p, a property inherited from Object.prototype,
\* or undefined
PatternsGet(p) ==
  LET own == {k \in 1..Len(patterns) : patterns[k].name = p}
  IN IF own # {}
       THEN patterns[CHOOSE k \in own : TRUE]
       ELSE IF p \in ObjectPrototypeKeys THEN Inherited ELSE Undefined

IsPattern(v) == "regex" \in DOMAIN v

(***************************************************************************)
(* getActivePatterns(options).  An option that is absent is modelled by    *)
(* the value the code treats it as: FALSE for all and stats, the empty     *)
(* array for include and exclude.                                          *)
(***************************************************************************)
Options(all, include, exclude, stats) ==
  [all |-> all, include |-> include, exclude |-> exclude, stats |-> stats]

\* lines 39-45: the list the exclusions are applied to
BaseList(options) ==
  IF options.all
    THEN allPatternNames
    ELSE IF Len(options.include) > 0 THEN options.include ELSE defaultPatterns

\* a faulty variant of lines 48-50 that removes nothing
KeepExcluded(active, options) == active

\* lines 48-50
ApplyExclusions(active, options) ==
  IF Len(options.exclude) > 0
    THEN SelectSeq(active, LAMBDA p : ~Includes(options.exclude, p))
    ELSE active

\* line 53
InvalidNames(active) == SelectSeq(active, LAMBDA p : PatternsGet(p) = Undefined)

\* a faulty variant of lines 36-59 that does not validate the names
getActivePatternsUnchecked(options) ==
  [error |-> Null, value |-> ApplyExclusions(BaseList(options), options)]

\* the outcome of the call: the array returned, or the error thrown
getActivePatterns(options) ==
  LET active == ApplyExclusions(BaseList(options), options)
      invalid == InvalidNames(active)
  IN IF Len(invalid) > 0
       THEN [error |-> Error("Unknown patterns: " \o Join(invalid, ", ")), value |-> <<>>]
       ELSE [error |-> Null, value |-> active]

(***************************************************************************)
(* One iteration of the loop of redact (lines 77-95) on the current text.  *)
(***************************************************************************)
\* new RegExp(pattern.regex.source, pattern.regex.flags)
CloneRegex(pattern) == RegExp(pattern.regex.source, pattern.regex.flags)

\* the replacements the callback of result.replace returns, match by match
Replacements(patternName, s, ms) ==
  [k \in 1..Len(ms) |-> PatternReplace(patternName, Matched(s, ms[k]))]

\* a faulty variant of lines 82-87 that counts every match
CountMatches(s, ms, reps) == Len(ms)

\* the value of count when result.replace returns
CountChanged(s, ms, reps) ==
  Cardinality({k \in 1..Len(ms) : reps[k] # Matched(s, ms[k])})

\* result.replace(regex, callback): the new text and the count, reps being what
\* the callback returned for the matches ms
Replaced(s, ms, reps) ==
  [text |-> Splice(s, ms, reps, 1, 0), count |-> CountChanged(s, ms, reps)]

ReplaceMatches(patternName, s, ms) == Replaced(s, ms, Replacements(patternName, s, ms))

\* lines 78-89: the new text and the count
ApplyPattern(patternName, s) ==
  ReplaceMatches(patternName, s, Scan(CloneRegex(PatternsGet(patternName)), s, 0))

\* lines 91-94
UpdateStats(st, patternName, count) ==
  IF st # Null /\ count > 0
    THEN [st EXCEPT !.byType = SetKey(@, patternName, count), !.total = @ + count]
    ELSE st

(***************************************************************************)
(* One iteration of the loop of detect (lines 122-139).                    *)
(***************************************************************************)
SampleCap == 3

MaskKeep == 3

MaskMinLength == 6

\* [...new Set(matches)]: the distinct matches in the order of first insertion
RECURSIVE SetOf(_, _, _)
SetOf(matches, k, acc) ==
  IF k > Len(matches)
    THEN acc
    ELSE SetOf(matches, k + 1,
               IF Includes(acc, matches[k]) THEN acc ELSE Append(acc, matches[k]))

\* arr.slice(0, n)
SliceHead(arr, n) == SubSeq(arr, 1, IF Len(arr) < n THEN Len(arr) ELSE n)

\* m.length > 6 ? `${m.slice(0, 3)}...${m.slice(-3)}` : '***'
MaskSample(m) ==
  IF Len(m) > MaskMinLength
    THEN SubSeq(m, 1, MaskKeep) \o "..." \o SubSeq(m, Len(m) - MaskKeep + 1, Len(m))
    ELSE "***"

\* a faulty variant of lines 133-135 that truncates before it removes duplicates
SamplesOfFirstMatches(matches) ==
  LET first == SetOf(SliceHead(matches, SampleCap), 1, <<>>)
  IN [k \in 1..Len(first) |-> MaskSample(first[k])]

\* lines 133-135
Samples(matches) ==
  LET first == SliceHead(SetOf(matches, 1, <<>>), SampleCap)
  IN [k \in 1..Len(first) |-> MaskSample(first[k])]

\* lines 127-138: the report after matches were found for the pattern
Report(res, patternName, pattern, matches) ==
  IF Len(matches) > 0
    THEN [hasSensitiveData |-> TRUE,
          matches |-> SetKey(res.matches, patternName,
                             [count |-> Len(matches),
                              description |-> pattern.description,
                              samples |-> Samples(matches)]),
          total |-> res.total + Len(matches)]
    ELSE res

\* s after the registered rules of names were applied to it, in registry order
RECURSIVE RedactedBy(_, _, _)
RedactedBy(s, names, k) ==
  IF k > Len(patterns)
    THEN s
    ELSE RedactedBy(IF patterns[k].name \in names
                      THEN ApplyPattern(patterns[k].name, s).text
                      ELSE s,
                    names, k + 1)

\* a faulty variant of lines 123-138 that looks for the pattern in what the rules
\* already reported would leave of the text, as the loop of redact does
DetectChained(res, patternName, s) ==
  Report(res, patternName, PatternsGet(patternName),
         StringMatch(RedactedBy(s, DOMAIN res.matches, 1),
                     CloneRegex(PatternsGet(patternName))))

\* lines 123-138: the report after the pattern was looked for in the text
DetectPattern(res, patternName, s) ==
  Report(res, patternName, PatternsGet(patternName),
         StringMatch(s, CloneRegex(PatternsGet(patternName))))

(***************************************************************************)
(* The calls the model makes: the texts and the options they are made      *)
(* with.                                                                   *)
(***************************************************************************)
MaxInclude == 2

MaxExclude == 1

MaxSegs == 2

MaxEmails == 4

SeqsUpTo(S, n) == UNION {[1..k -> S] : k \in 0..n}

\* a 40-character candidate of awsSecret with 15 distinct characters, all of them
\* hexadecimal digits
LowEntropy40 == "0123456789abcde0123456789abcde0123456789"

\* a 40-character candidate of awsSecret with 16 distinct characters, all of them
\* hexadecimal digits
HighEntropy40 == "0123456789abcdef0123456789abcdef01234567"

\* a credentialed URL whose host is followed by a port and a path holding two @;
\* p@h.io and x@y.io in it read as e-mail addresses
UrlWithPort == "ftp://u:p@h.io:1/x@y.io@z"

IncludeNames == {"urlWithCreds", "email", "unknownPattern", "nope", "constructor"}

ExcludeNames == {"email", "unknownPattern"}

Policies ==
  {Options(all, include, exclude, TRUE) :
     all \in BOOLEAN,
     include \in SeqsUpTo(IncludeNames, MaxInclude),
     exclude \in SeqsUpTo(ExcludeNames, MaxExclude)}

PolicyText == UrlWithPort \o " a@b.co"

Lexemes ==
  {"hi", "a@b.co", UrlWithPort, "10.0.0.1", LowEntropy40, HighEntropy40}

Texts == {Join(ws, " ") : ws \in SeqsUpTo(Lexemes, MaxSegs)}

TextPolicies == {Options(all, <<>>, <<>>, TRUE) : all \in BOOLEAN}

\* two addresses of 6 characters, one of 9 whose characters 4 to 6 are dots, and
\* a long one
Emails == {"a@b.co", "c@d.io", "a@b...com", "verylongemail@example.com"}

EmailTexts == {Join(ws, " ") : ws \in SeqsUpTo(Emails, MaxEmails)}

EmailPolicies == {Options(FALSE, <<"email">>, <<>>, stats) : stats \in BOOLEAN}

NonStrings == {Null, Num(123), [type |-> "object"]}

NonStringPolicies ==
  {Options(FALSE, <<>>, <<>>, FALSE), Options(FALSE, <<"unknownPattern">>, <<>>, TRUE)}

Call(t, o) == [text |-> t, options |-> o]

Inputs ==
  {Call(Str(PolicyText), o) : o \in Policies}
    \cup {Call(Str(t), o) : t \in Texts, o \in TextPolicies}
    \cup {Call(Str(t), o) : t \in EmailTexts, o \in EmailPolicies}
    \cup {Call(v, o) : v \in NonStrings, o \in NonStringPolicies}

(***************************************************************************)
(* The state: the arguments of the call, where the call stands, its        *)
(* locals, and what it returned or threw; the lastIndex of the regex       *)
(* objects of the registry; the calls made so far; the state of the        *)
(* command line program.                                                   *)
(***************************************************************************)
VARIABLES
  text,            \* the text argument
  options,         \* the options argument
  op,              \* the function called: "none", "redact", "detect", "listPatterns"
  pc,              \* "idle", "loop", "returned", "threw"
  activePatterns,  \* const activePatterns
  idx,             \* the position of the for-of loop in activePatterns
  result,          \* let result (redact)
  stats,           \* const stats (redact)
  results,         \* const results (detect)
  ret,             \* the value returned
  err,             \* the error thrown
  piped,           \* the text is the text the previous redact call returned
  lastIndex,       \* patterns[name].regex.lastIndex, name by name
  session,         \* the first call of a sequence of calls and how it ended
  argv,            \* process.argv
  argIndex,        \* let i (parseArgs)
  args,            \* const args (parseArgs, main)
  cpc,             \* where main stands: "none", "parse", "process", "exited"
  exitCode,        \* the code the process exited with
  stdout,          \* what was written to the standard output
  stderr,          \* what was written to the standard error
  files            \* what was written to files

cliVars == <<argv, argIndex, args, cpc, exitCode, stdout, stderr, files>>

vars ==
  <<text, options, op, pc, activePatterns, idx, result, stats, results, ret, err, piped,
    lastIndex, session, cliVars>>

\* no call made yet
InitCall ==
  /\ op = "none"
  /\ pc = "idle"
  /\ activePatterns = <<>>
  /\ idx = 0
  /\ result = ""
  /\ stats = Null
  /\ results = Null
  /\ ret = Undefined
  /\ err = Null
  /\ piped = FALSE
  /\ lastIndex = [n \in {patterns[k].name : k \in 1..Len(patterns)} |-> 0]

\* a single call, not made by main
NoSession == session = Null

NoCli ==
  /\ argv = <<>>
  /\ argIndex = 0
  /\ args = Null
  /\ cpc = "none"
  /\ exitCode = Null
  /\ stdout = <<>>
  /\ stderr = <<>>
  /\ files = <<>>

Init ==
  /\ \E in \in Inputs : text = in.text /\ options = in.options
  /\ InitCall
  /\ NoSession
  /\ NoCli

Throw(e) ==
  /\ pc' = "threw"
  /\ err' = e
  /\ UNCHANGED <<activePatterns, idx, result, stats, results, ret, lastIndex>>

\* redact(t, o), lines 67-75: up to the loop
RedactEnter(t, o) ==
  /\ op' = "redact"
  /\ text' = t
  /\ options' = o
  /\ IF TypeOf(t) # "string"
       THEN Throw(TypeError("Input must be a string"))
       ELSE LET got == getActivePatterns(o)
            IN IF got.error # Null
                 THEN Throw(got.error)
                 ELSE /\ activePatterns' = got.value
                      /\ stats' = IF o.stats
                                    THEN [total |-> 0, byType |-> EmptyObject]
                                    ELSE Null
                      /\ result' = t.value
                      /\ idx' = 1
                      /\ pc' = "loop"
                      /\ UNCHANGED <<results, ret, err, lastIndex>>

RedactCall ==
  /\ pc = "idle"
  /\ cpc = "none"
  /\ RedactEnter(text, options)
  /\ UNCHANGED <<piped, session, cliVars>>

\* redact is called again on the text it returned, with the same options
RedactOutput ==
  /\ pc = "returned"
  /\ op = "redact"
  /\ session = Null
  /\ cpc = "none"
  /\ ~piped
  /\ RedactEnter(Str(ret.text), options)
  /\ piped' = TRUE
  /\ UNCHANGED <<session, cliVars>>

\* a faulty variant of lines 80-83 and 124-125 that tests the regex object of the
\* registry on s, which leaves its lastIndex at the end of the first match
LastIndexAfterTest(li, patternName, s) ==
  [li EXCEPT ![patternName] =
     IF Exec(CloneRegex(PatternsGet(patternName)), s, 0) = NoMatch
       THEN 0
       ELSE Exec(CloneRegex(PatternsGet(patternName)), s, 0).end]

\* lines 80-83 and 124-125: the lastIndex of the regex objects of the registry
\* after the rule was looked for in s; the search runs on a clone
LastIndexAfter(li, patternName, s) == li

\* lines 89-94: what an iteration leaves, applied being the outcome of replace
RedactApplied(patternName, applied) ==
  /\ result' = applied.text
  /\ stats' = UpdateStats(stats, patternName, applied.count)
  /\ idx' = idx + 1
  /\ lastIndex' = LastIndexAfter(lastIndex, patternName, result)
  /\ UNCHANGED <<pc, activePatterns, results, ret, err>>

\* redact, lines 77-95: one iteration of the loop
RedactStep ==
  /\ pc = "loop"
  /\ op = "redact"
  /\ idx <= Len(activePatterns)
  /\ UNCHANGED <<text, options, op, piped, session, cliVars>>
  /\ IF ~IsPattern(PatternsGet(activePatterns[idx]))
       THEN Throw(TypeError("Cannot read properties of undefined (reading 'source')"))
       ELSE RedactApplied(activePatterns[idx], ApplyPattern(activePatterns[idx], result))

\* redact, lines 97-101
RedactReturn ==
  /\ pc = "loop"
  /\ op = "redact"
  /\ idx > Len(activePatterns)
  /\ ret' = IF stats # Null THEN [text |-> result, stats |-> stats] ELSE [text |-> result]
  /\ pc' = "returned"
  /\ UNCHANGED <<text, options, op, activePatterns, idx, result, stats, results, err, piped,
                 lastIndex, session, cliVars>>

\* detect(t, o), lines 110-120: up to the loop
DetectEnter(t, o) ==
  /\ op' = "detect"
  /\ text' = t
  /\ options' = o
  /\ IF TypeOf(t) # "string"
       THEN Throw(TypeError("Input must be a string"))
       ELSE LET got == getActivePatterns(o)
            IN IF got.error # Null
                 THEN Throw(got.error)
                 ELSE /\ activePatterns' = got.value
                      /\ results' = [hasSensitiveData |-> FALSE,
                                     matches |-> EmptyObject,
                                     total |-> 0]
                      /\ idx' = 1
                      /\ pc' = "loop"
                      /\ UNCHANGED <<result, stats, ret, err, lastIndex>>

DetectCall ==
  /\ pc = "idle"
  /\ cpc = "none"
  /\ DetectEnter(text, options)
  /\ UNCHANGED <<piped, session, cliVars>>

\* detect, lines 122-139: one iteration of the loop
DetectStep ==
  /\ pc = "loop"
  /\ op = "detect"
  /\ idx <= Len(activePatterns)
  /\ UNCHANGED <<text, options, op, piped, session, cliVars>>
  /\ IF ~IsPattern(PatternsGet(activePatterns[idx]))
       THEN Throw(TypeError("Cannot read properties of undefined (reading 'source')"))
       ELSE /\ results' = DetectPattern(results, activePatterns[idx], text.value)
            /\ idx' = idx + 1
            /\ lastIndex' = LastIndexAfter(lastIndex, activePatterns[idx], text.value)
            /\ UNCHANGED <<pc, activePatterns, result, stats, ret, err>>

\* detect, line 141
DetectReturn ==
  /\ pc = "loop"
  /\ op = "detect"
  /\ idx > Len(activePatterns)
  /\ ret' = results
  /\ pc' = "returned"
  /\ UNCHANGED <<text, options, op, activePatterns, idx, result, stats, results, err, piped,
                 lastIndex, session, cliVars>>

Next ==
  \/ RedactCall
  \/ RedactStep
  \/ RedactReturn
  \/ DetectCall
  \/ DetectStep
  \/ DetectReturn
  \/ RedactOutput

Spec == Init /\ [][Next]_vars

(***************************************************************************)
(* Sequences of calls: a first call, calls in between with other           *)
(* arguments, and the first call made again.                               *)
(***************************************************************************)
MaxBetween == 1

\* listPatterns(), lines 148-157
listPatterns ==
  [n \in {patterns[k].name : k \in 1..Len(patterns)} |->
     [description |-> PatternsGet(n).description,
      isDefault |-> Includes(defaultPatterns, n)]]

CallTexts == {Str(PolicyText), Str("hi"), Null}

CallPolicies ==
  {Options(FALSE, <<>>, <<>>, TRUE), Options(FALSE, <<"email">>, <<>>, FALSE),
   Options(FALSE, <<"unknownPattern">>, <<>>, FALSE), Options(TRUE, <<>>, <<>>, TRUE)}

CallInputs == {Call(t, o) : t \in CallTexts, o \in CallPolicies}

BetweenInputs ==
  {Call(Str("a@b.co"), Options(FALSE, <<>>, <<>>, TRUE)),
   Call(Num(123), Options(FALSE, <<"unknownPattern">>, <<>>, FALSE))}

InitCalls ==
  /\ \E in \in CallInputs : text = in.text /\ options = in.options
  /\ InitCall
  /\ session = [first |-> Null, between |-> 0, repeated |-> FALSE]
  /\ NoCli

\* the call has ended
Ended == pc \in {"returned", "threw"}

\* the call made and how it ended: what it returned or threw
Outcome ==
  [op |-> op, text |-> text, options |-> options, pc |-> pc,
   value |-> IF pc = "threw" THEN err ELSE ret]

\* one more call in between, the first call being remembered
Between ==
  /\ Ended
  /\ session # Null
  /\ ~session.repeated
  /\ session.between < MaxBetween
  /\ session' = [first |-> IF session.first = Null THEN Outcome ELSE session.first,
                 between |-> session.between + 1,
                 repeated |-> FALSE]
  /\ UNCHANGED <<piped, cliVars>>

BetweenRedact == Between /\ \E in \in BetweenInputs : RedactEnter(in.text, in.options)

BetweenDetect == Between /\ \E in \in BetweenInputs : DetectEnter(in.text, in.options)

\* listPatterns(), lines 148-157, called in between
BetweenList ==
  /\ Between
  /\ op' = "listPatterns"
  /\ ret' = listPatterns
  /\ pc' = "returned"
  /\ UNCHANGED <<text, options, activePatterns, idx, result, stats, results, err,
                 lastIndex>>

\* the first call is made again, with the arguments it was made with
RepeatCall ==
  /\ Ended
  /\ session # Null
  /\ ~session.repeated
  /\ LET first == IF session.first = Null THEN Outcome ELSE session.first
     IN /\ session' = [first |-> first, between |-> session.between, repeated |-> TRUE]
        /\ IF first.op = "redact"
             THEN RedactEnter(first.text, first.options)
             ELSE DetectEnter(first.text, first.options)
  /\ UNCHANGED <<piped, cliVars>>

NextCalls ==
  \/ RedactCall
  \/ RedactStep
  \/ RedactReturn
  \/ DetectCall
  \/ DetectStep
  \/ DetectReturn
  \/ BetweenRedact
  \/ BetweenDetect
  \/ BetweenList
  \/ RepeatCall

SpecCalls == InitCalls /\ [][NextCalls]_vars
(***************************************************************************)
(* The command line program: parseArgs and main (cli.js).                  *)
(***************************************************************************)
MaxArgs == 3

\* a JavaScript value in a condition
Truthy(v) == v.type = "string" /\ v.value # ""

\* s.startsWith(prefix)
StartsWith(s, prefix) == Len(prefix) <= Len(s) /\ SubSeq(s, 1, Len(prefix)) = prefix

\* s.split(sep), sep one character
RECURSIVE Split(_, _, _, _)
Split(s, sep, from, k) ==
  IF k > Len(s)
    THEN <<SubSeq(s, from, Len(s))>>
    ELSE IF Chr(s, k) = sep
      THEN <<SubSeq(s, from, k - 1)>> \o Split(s, sep, k + 1, k + 1)
      ELSE Split(s, sep, from, k + 1)

\* s.trim()
RECURSIVE Trim(_)
Trim(s) ==
  IF s = ""
    THEN s
    ELSE IF Chr(s, 1) \in Space
      THEN Trim(SubSeq(s, 2, Len(s)))
      ELSE IF Chr(s, Len(s)) \in Space THEN Trim(SubSeq(s, 1, Len(s) - 1)) ELSE s

\* value.split(',').map((p) => p.trim())
SplitTrim(value) ==
  LET parts == Split(value, ",", 1, 1) IN [k \in 1..Len(parts) |-> Trim(parts[k])]

\* lines 64-76
InitialArgs ==
  [help |-> FALSE, version |-> FALSE, list |-> FALSE, detect |-> FALSE, stats |-> FALSE,
   quiet |-> FALSE, all |-> FALSE, include |-> <<>>, exclude |-> <<>>, output |-> Null,
   file |-> Null]

\* av[j], j counted from 0
ArgvAt(av, j) == IF j < Len(av) THEN Str(av[j + 1]) ELSE Undefined

\* lines 80-112: args after the iteration that reads av[j]
ParseArg(a, av, j) ==
  LET arg == av[j + 1]
  IN IF arg \in {"-h", "--help"} THEN [a EXCEPT !.help = TRUE]
     ELSE IF arg \in {"-v", "--version"} THEN [a EXCEPT !.version = TRUE]
     ELSE IF arg \in {"-l", "--list"} THEN [a EXCEPT !.list = TRUE]
     ELSE IF arg \in {"-d", "--detect"} THEN [a EXCEPT !.detect = TRUE]
     ELSE IF arg \in {"-s", "--stats"} THEN [a EXCEPT !.stats = TRUE]
     ELSE IF arg \in {"-q", "--quiet"} THEN [a EXCEPT !.quiet = TRUE]
     ELSE IF arg \in {"-a", "--all"} THEN [a EXCEPT !.all = TRUE]
     ELSE IF arg \in {"-i", "--include"}
       THEN IF Truthy(ArgvAt(av, j + 1))
              THEN [a EXCEPT !.include = SplitTrim(av[j + 2])]
              ELSE a
     ELSE IF arg \in {"-x", "--exclude"}
       THEN IF Truthy(ArgvAt(av, j + 1))
              THEN [a EXCEPT !.exclude = SplitTrim(av[j + 2])]
              ELSE a
     ELSE IF arg \in {"-o", "--output"} THEN [a EXCEPT !.output = ArgvAt(av, j + 1)]
     ELSE IF ~StartsWith(arg, "-") /\ ~Truthy(a.file) THEN [a EXCEPT !.file = Str(arg)]
     ELSE a

\* lines 80-114: i after the iteration that reads av[j]
ParseAdvance(av, j) ==
  IF av[j + 1] \in {"-i", "--include", "-x", "--exclude", "-o", "--output"}
    THEN j + 2
    ELSE j + 1

\* n as template literals print it
RECURSIVE NumberToString(_)
NumberToString(n) ==
  IF n < 10
    THEN SubSeq("0123456789", n + 1, n + 1)
    ELSE NumberToString(n \div 10) \o NumberToString(n % 10)

\* Object.keys(obj): the keys in the order they were set, which is the order of
\* the rules that set them
KeysInOrder(obj, order) == SetOf(SelectSeq(order, LAMBDA n : HasKey(obj, n)), 1, <<>>)

\* the loop of formatDetectionResults, lines 160-166
RECURSIVE DetectionLines(_, _, _)
DetectionLines(matches, keys, k) ==
  IF k > Len(keys)
    THEN ""
    ELSE "\n  " \o keys[k] \o " (" \o NumberToString(matches[keys[k]].count) \o ")\n"
         \o "    " \o matches[keys[k]].description \o "\n"
         \o (IF Len(matches[keys[k]].samples) > 0
               THEN "    Samples: " \o Join(matches[keys[k]].samples, ", ") \o "\n"
               ELSE "")
         \o DetectionLines(matches, keys, k + 1)

\* formatDetectionResults(res), lines 153-169, without the emoji that heads the
\* messages
formatDetectionResults(res, order) ==
  IF ~res.hasSensitiveData
    THEN "No sensitive data detected"
    ELSE "Found " \o NumberToString(res.total) \o " sensitive item(s):\n"
         \o DetectionLines(res.matches, KeysInOrder(res.matches, order), 1)

\* the loop of formatStats, lines 181-183
RECURSIVE StatsLines(_, _, _)
StatsLines(byType, keys, k) ==
  IF k > Len(keys)
    THEN ""
    ELSE "   " \o keys[k] \o ": " \o NumberToString(byType[keys[k]]) \o "\n"
         \o StatsLines(byType, keys, k + 1)

\* formatStats(st), lines 174-186, without the emoji that heads the messages
formatStats(st, order) ==
  IF st.total = 0
    THEN "No redactions needed"
    ELSE "\nRedacted " \o NumberToString(st.total) \o " item(s):\n"
         \o StatsLines(st.byType, KeysInOrder(st.byType, order), 1)


\* line 12: the version field of package.json
VERSION == "1.0.0"

\* lines 14-58: the head line of the help text; the lines below it are constant
\* text as well
HELP == "\nredakt v" \o VERSION \o " - Detect and mask PII in text\n"

\* lines 208-214: what --list prints, one element for each console.log
RECURSIVE ListLines(_, _)
ListLines(list, k) ==
  IF k > Len(patterns)
    THEN <<>>
    ELSE <<"  " \o patterns[k].name
             \o (IF list[patterns[k].name].isDefault THEN " (default)" ELSE ""),
           "    " \o list[patterns[k].name].description \o "\n">>
         \o ListLines(list, k + 1)

\* lines 219-224
BuildOptions(a) ==
  Options(a.all,
          IF Len(a.include) > 0 THEN a.include ELSE <<>>,
          IF Len(a.exclude) > 0 THEN a.exclude ELSE <<>>,
          a.stats)

\* a faulty variant of line 241 that reports success whatever was found
ExitZero(res) == 0

\* line 241
DetectExitCode(res) == IF res.hasSensitiveData THEN 1 ELSE 0

\* what the file or the pipe holds
InputTexts == {"hi", "a@b.co c@d.io"}

ArgTokens == {"-d", "-i", "-x", "-o", "-s", "-l", "-q", "-h", "email", "a, nope", "f", ""}

\* process.argv when main starts
InitCli ==
  /\ \E tokens \in SeqsUpTo(ArgTokens, MaxArgs) : argv = <<"node", "redakt">> \o tokens
  /\ argIndex = 2
  /\ args = InitialArgs
  /\ cpc = "parse"
  /\ exitCode = Null
  /\ stdout = <<>>
  /\ stderr = <<>>
  /\ files = <<>>
  /\ text = Undefined
  /\ options = Undefined
  /\ InitCall
  /\ NoSession

engineVars ==
  <<text, options, op, pc, activePatterns, idx, result, stats, results, ret, err, piped,
    lastIndex, session>>

\* parseArgs, lines 79-114: one iteration of the loop
ParseStep ==
  /\ cpc = "parse"
  /\ argIndex < Len(argv)
  /\ args' = ParseArg(args, argv, argIndex)
  /\ argIndex' = ParseAdvance(argv, argIndex)
  /\ UNCHANGED <<argv, cpc, exitCode, stdout, stderr, files, engineVars>>

\* parseArgs has returned
Parsed == cpc = "parse" /\ argIndex >= Len(argv)

Immediate == args.help \/ args.version \/ args.list

\* main, lines 197-216
MainImmediate ==
  /\ Parsed
  /\ Immediate
  /\ stdout' = IF args.help THEN Append(stdout, HELP)
               ELSE IF args.version THEN Append(stdout, VERSION)
               ELSE stdout \o <<"\nAvailable patterns:\n">> \o ListLines(listPatterns, 1)
  /\ exitCode' = 0
  /\ cpc' = "exited"
  /\ UNCHANGED <<argv, argIndex, args, stderr, files, engineVars>>

\* readInput, lines 123-127: the file named on the command line does not exist
MainFileNotFound ==
  /\ Parsed
  /\ ~Immediate
  /\ Truthy(args.file)
  /\ stderr' = Append(stderr, "Error: File not found: " \o args.file.value)
  /\ exitCode' = 1
  /\ cpc' = "exited"
  /\ UNCHANGED <<argv, argIndex, args, stdout, files, engineVars>>

\* readInput, lines 136-140: no file and nothing piped in
MainNoInput ==
  /\ Parsed
  /\ ~Immediate
  /\ ~Truthy(args.file)
  /\ stdout' = Append(stdout, HELP)
  /\ exitCode' = 0
  /\ cpc' = "exited"
  /\ UNCHANGED <<argv, argIndex, args, stderr, files, engineVars>>

\* main, lines 229 and 239: the input is read and detect is entered
MainDetect ==
  /\ Parsed
  /\ ~Immediate
  /\ args.detect
  /\ \E input \in InputTexts : DetectEnter(Str(input), BuildOptions(args))
  /\ cpc' = "process"
  /\ UNCHANGED <<argv, argIndex, args, exitCode, stdout, stderr, files, piped, session>>

\* main, lines 229 and 244: the input is read and redact is entered
MainRedact ==
  /\ Parsed
  /\ ~Immediate
  /\ ~args.detect
  /\ \E input \in InputTexts : RedactEnter(Str(input), BuildOptions(args))
  /\ cpc' = "process"
  /\ UNCHANGED <<argv, argIndex, args, exitCode, stdout, stderr, files, piped, session>>

\* main, lines 240-241
MainDetectExit ==
  /\ cpc = "process"
  /\ op = "detect"
  /\ pc = "returned"
  /\ stdout' = Append(stdout, formatDetectionResults(ret, activePatterns))
  /\ exitCode' = DetectExitCode(ret)
  /\ cpc' = "exited"
  /\ UNCHANGED <<argv, argIndex, args, stderr, files, engineVars>>

\* main, lines 247-260, and the end of the process after main has returned
MainRedactOutput ==
  /\ cpc = "process"
  /\ op = "redact"
  /\ pc = "returned"
  /\ IF Truthy(args.output)
       THEN /\ files' = Append(files, [path |-> args.output.value, data |-> ret.text])
            /\ stdout' = stdout
       ELSE /\ stdout' = Append(stdout, ret.text)
            /\ files' = files
  /\ stderr' = stderr
                 \o (IF Truthy(args.output) /\ ~args.quiet
                       THEN <<"Written to " \o args.output.value>>
                       ELSE <<>>)
                 \o (IF args.stats /\ ~args.quiet
                       THEN <<formatStats(ret.stats, activePatterns)>>
                       ELSE <<>>)
  /\ exitCode' = 0
  /\ cpc' = "exited"
  /\ UNCHANGED <<argv, argIndex, args, engineVars>>

\* main, lines 261-263
MainCatch ==
  /\ cpc = "process"
  /\ pc = "threw"
  /\ stderr' = Append(stderr, "Error: " \o err.message)
  /\ exitCode' = 1
  /\ cpc' = "exited"
  /\ UNCHANGED <<argv, argIndex, args, stdout, files, engineVars>>

NextCli ==
  \/ ParseStep
  \/ MainImmediate
  \/ MainFileNotFound
  \/ MainNoInput
  \/ MainDetect
  \/ MainRedact
  \/ DetectStep
  \/ DetectReturn
  \/ RedactStep
  \/ RedactReturn
  \/ MainDetectExit
  \/ MainRedactOutput
  \/ MainCatch

SpecCli == InitCli /\ [][NextCli]_vars

(***************************************************************************)
(* Properties.                                                             *)
(***************************************************************************)
Registered(n) == Includes(allPatternNames, n)

Priority(n) == PatternsGet(n).priority

\* the sum of f[k] over the keys k of S
RECURSIVE SumOver(_, _)
SumOver(f, S) ==
  IF S = {}
    THEN 0
    ELSE LET k == CHOOSE x \in S : TRUE IN f[k] + SumOver(f, S \ {k})

\* w occurs in s
Contains(s, w) == \E i \in 0..(Len(s) - Len(w)) : SubSeq(s, i + 1, i + Len(w)) = w

Returned(fn) == op = fn /\ pc = "returned"

\* an iteration of the loop of fn that ran to its end
Iteration(fn) == op = fn /\ pc = "loop" /\ idx' = idx + 1

\* the base list the selection policy o names
BaseOf(o) ==
  IF o.all THEN allPatternNames ELSE IF o.include # <<>> THEN o.include ELSE defaultPatterns

\* active is base without the names of exclude, the others in the order of base
IsRestOf(active, base, exclude) ==
  LET kept == {k \in 1..Len(base) : ~Includes(exclude, base[k])}
  IN /\ Len(active) = Cardinality(kept)
     /\ \A k \in kept : active[Cardinality({j \in kept : j <= k})] = base[k]

\* C1: whenever getActivePatterns returns, for redact or for detect, the active
\* list is every registered name if all is set, else the include sequence if it is
\* not empty, else the default names; with the names of exclude removed from that
\* list and the remaining names in their order
C1_ActiveList ==
  pc \in {"loop", "returned"} =>
    IsRestOf(activePatterns, BaseOf(options), options.exclude)

\* an include list of two registered names one of which is excluded
C1_Witness ==
  /\ pc = "loop"
  /\ ~options.all
  /\ Len(options.include) = MaxInclude
  /\ options.exclude # <<>>
  /\ Len(activePatterns) = 1
  /\ activePatterns[1] = options.include[1]

UnregisteredIn(include) == SelectSeq(include, LAMBDA n : ~Registered(n))

\* C2: whatever all and exclude are, a call of redact or of detect on a string
\* with an include list that holds an unregistered name ends with the unknown
\* patterns error, whose message lists every unregistered name of include
C2_UnknownRuleError ==
  (/\ op # "none"
   /\ pc \in {"returned", "threw"}
   /\ TypeOf(text) = "string"
   /\ UnregisteredIn(options.include) # <<>>) =>
    /\ pc = "threw"
    /\ err.type = "Error"
    /\ Contains(err.message, "Unknown patterns")
    /\ \A k \in 1..Len(options.include) :
         ~Registered(options.include[k]) => Contains(err.message, options.include[k])

C4_NoDuplicates ==
  pc \in {"loop", "returned"} =>
    \A i, j \in 1..Len(activePatterns) :
      i # j => activePatterns[i] # activePatterns[j]

\* the matches among found that the replacer of the rule changes
Changed(name, found) ==
  Cardinality({k \in 1..Len(found) : PatternReplace(name, found[k]) # found[k]})

\* the matches of the rule in s that its replacer changes
Counted(name, s) == Changed(name, StringMatch(s, CloneRegex(PatternsGet(name))))

\* st after n matches were counted for its total
TotalGrows(before, after, n) ==
  /\ after.total = before.total + n
  /\ n = 0 => after = before

\* C5: an iteration of redact adds to the statistics, and an iteration of detect
\* adds to the report, only the matches the replacer of the rule changes: a match
\* it returns unchanged adds nothing to byType, to matches[name].count, to total or
\* to hasSensitiveData
C5_UnchangedNotCounted ==
  [][/\ (Iteration("redact") /\ stats # Null) =>
          TotalGrows(stats, stats', Counted(activePatterns[idx], result))
     /\ Iteration("detect") =>
          /\ TotalGrows(results, results', Counted(activePatterns[idx], text.value))
          /\ results' # results =>
               results'.matches[activePatterns[idx]].count
                 = results'.total - results.total]_vars

\* obj[key], 0 when obj has no such key
GetOrZero(obj, key) == IF HasKey(obj, key) THEN obj[key] ELSE 0

\* C6: with statistics requested, every iteration of redact adds its count to
\* byType[name] and to total when the count is positive, so that what redact
\* returns has only positive entries in byType and a total that is their sum;
\* without statistics redact returns the text alone
C6_StatsConsistent ==
  [][/\ (Iteration("redact") /\ stats # Null) =>
          IF stats'.total > stats.total
            THEN stats'.byType[activePatterns[idx]]
                   = GetOrZero(stats.byType, activePatterns[idx])
                       + (stats'.total - stats.total)
            ELSE stats' = stats
     /\ (op = "redact" /\ pc = "loop" /\ pc' = "returned") =>
          IF options.stats
            THEN /\ DOMAIN ret' = {"text", "stats"}
                 /\ \A n \in DOMAIN ret'.stats.byType : ret'.stats.byType[n] > 0
                 /\ ret'.stats.total
                      = SumOver(ret'.stats.byType, DOMAIN ret'.stats.byType)
            ELSE DOMAIN ret' = {"text"}]_vars

DefaultPolicy(o) == ~o.all /\ o.include = <<>> /\ o.exclude = <<>>

\* C7: under the default policy, redact of the text redact returned returns that
\* text again and counts nothing
C7_Idempotent ==
  (Returned("redact") /\ piped /\ DefaultPolicy(options)) =>
    /\ ret.text = text.value
    /\ options.stats => ret.stats.total = 0

\* report says that the rule has n matches
ReportsCount(report, name, n) ==
  IF n > 0
    THEN HasKey(report.matches, name) /\ report.matches[name].count = n
    ELSE ~HasKey(report.matches, name)

\* the matches of the rule in s
MatchesIn(name, s) == StringMatch(s, CloneRegex(PatternsGet(name)))

\* C8: the count detect reports for an active rule is the number of matches of
\* the rule in the text detect was called with, whichever other rules are active
\* and wherever they stand in the list
C8_DetectOriginalText ==
  Returned("detect") =>
    \A k \in 1..Len(activePatterns) :
      ReportsCount(ret, activePatterns[k], Len(MatchesIn(activePatterns[k], text.value)))

\* detect reported urlWithCreds and email on a text where email matches another
\* number of times once urlWithCreds has been applied
C8_Witness ==
  /\ Returned("detect")
  /\ HasKey(ret.matches, "urlWithCreds")
  /\ HasKey(ret.matches, "email")
  /\ ret.matches["email"].count
       # Len(MatchesIn("email", ApplyPattern("urlWithCreds", text.value).text))

\* C9: in the report detect returns, every entry of matches has a positive count,
\* total is the sum of the counts of the entries, and hasSensitiveData is true
\* exactly when total is positive
C9_ReportConsistent ==
  Returned("detect") =>
    /\ \A n \in DOMAIN ret.matches : ret.matches[n].count > 0
    /\ ret.total = SumOver([n \in DOMAIN ret.matches |-> ret.matches[n].count],
                           DOMAIN ret.matches)
    /\ ret.hasSensitiveData <=> ret.total > 0

\* a match as a sample shows it
Masked(m) ==
  IF Len(m) > 6 THEN SubSeq(m, 1, 3) \o "..." \o SubSeq(m, Len(m) - 2, Len(m)) ELSE "***"

\* samples shows, masked, the first 3 distinct strings of found, each where it is
\* first seen
IsSamplesOf(samples, found) ==
  LET firsts == {k \in 1..Len(found) : \A j \in 1..(k - 1) : found[j] # found[k]}
      rank(k) == Cardinality({j \in firsts : j <= k})
  IN /\ Len(samples) = IF Cardinality(firsts) < 3 THEN Cardinality(firsts) ELSE 3
     /\ \A k \in firsts : rank(k) <= 3 => samples[rank(k)] = Masked(found[k])

FirstSeen(found) == {k \in 1..Len(found) : \A j \in 1..(k - 1) : found[j] # found[k]}

\* C11: the samples of every rule detect reports hold at most 3 strings, no two
\* of them equal
C11_SamplesDistinct ==
  Returned("detect") =>
    \A n \in DOMAIN ret.matches :
      /\ Len(ret.matches[n].samples) <= 3
      /\ \A i, j \in 1..Len(ret.matches[n].samples) :
           i # j => ret.matches[n].samples[i] # ret.matches[n].samples[j]

\* the i-th sample is not the i-th distinct string of found itself
HidesMatches(samples, found) ==
  \A k \in FirstSeen(found) :
    Cardinality({j \in FirstSeen(found) : j <= k}) <= Len(samples) =>
      samples[Cardinality({j \in FirstSeen(found) : j <= k})] # found[k]

\* C12: no sample of a report of detect is the whole matched string it was made
\* from
C12_NoFullMatch ==
  Returned("detect") =>
    \A n \in DOMAIN ret.matches :
      HidesMatches(ret.matches[n].samples, MatchesIn(n, text.value))

\* the call has applied no rule and holds no text, statistics or report
NothingDone ==
  /\ ret = Undefined
  /\ idx = 0
  /\ activePatterns = <<>>
  /\ result = ""
  /\ stats = Null
  /\ results = Null

\* the policy o selects a name that patterns does not hold
SelectsUnknown(o) ==
  \E k \in 1..Len(BaseOf(o)) :
    /\ ~Includes(o.exclude, BaseOf(o)[k])
    /\ PatternsGet(BaseOf(o)[k]) = Undefined

Ascending(names) ==
  \A i, j \in 1..Len(names) : i < j => Priority(names[i]) < Priority(names[j])

\* C14: every default name is registered, the registered names that are not
\* default are ipv6, awsKey, awsSecret and hexSecret, and allPatternNames and
\* defaultPatterns both list their rules in strictly ascending priority; so does
\* the list a call without include and exclude runs with
C14_Registry ==
  (pc = "loop" /\ options.include = <<>> /\ options.exclude = <<>>) =>
    /\ \A k \in 1..Len(defaultPatterns) : Registered(defaultPatterns[k])
    /\ {allPatternNames[k] : k \in 1..Len(allPatternNames)}
         \ {defaultPatterns[k] : k \in 1..Len(defaultPatterns)}
         = {"ipv6", "awsKey", "awsSecret", "hexSecret"}
    /\ Ascending(allPatternNames)
    /\ Ascending(defaultPatterns)
    /\ Ascending(activePatterns)

\* redact is in the last iteration of a call that runs with the default names
C14_Witness ==
  /\ op = "redact"
  /\ pc = "loop"
  /\ ~options.all
  /\ activePatterns = defaultPatterns
  /\ idx = Len(activePatterns)

\* the matches ms of r in s lie one after the other, each the match backtracking
\* prefers where it starts, and r matches nowhere between them
IsLeftmostScan(ms, r, s) ==
  /\ \A k \in 1..Len(ms) :
       /\ ms[k].index < ms[k].end
       /\ (IF k = 1 THEN 0 ELSE ms[k - 1].end) <= ms[k].index
       /\ Ends(r.source, r.flags.i, s, ms[k].index) # <<>>
       /\ ms[k].end = Ends(r.source, r.flags.i, s, ms[k].index)[1]
       /\ \A p \in (IF k = 1 THEN 0 ELSE ms[k - 1].end)..(ms[k].index - 1) :
            Ends(r.source, r.flags.i, s, p) = <<>>
  /\ \A p \in (IF ms = <<>> THEN 0 ELSE ms[Len(ms)].end)..Len(s) :
       Ends(r.source, r.flags.i, s, p) = <<>>

\* how far the replacements of the matches before the k-th move what follows
RECURSIVE Drift(_, _, _)
Drift(ms, reps, k) ==
  IF k <= 1
    THEN 0
    ELSE Drift(ms, reps, k - 1) + Len(reps[k - 1]) - (ms[k - 1].end - ms[k - 1].index)

\* after is before with every match ms[k] replaced by reps[k] and the rest kept
IsSpliceOf(after, before, ms, reps) ==
  /\ Len(after) = Len(before) + Drift(ms, reps, Len(ms) + 1)
  /\ \A k \in 1..Len(ms) :
       SubSeq(after, ms[k].index + Drift(ms, reps, k) + 1,
              ms[k].index + Drift(ms, reps, k) + Len(reps[k])) = reps[k]
  /\ \A k \in 1..(Len(ms) + 1) :
       LET from == IF k = 1 THEN 0 ELSE ms[k - 1].end
           to == IF k > Len(ms) THEN Len(before) ELSE ms[k].index
       IN SubSeq(after, from + Drift(ms, reps, k) + 1, to + Drift(ms, reps, k))
            = SubSeq(before, from + 1, to)

\* how many of the matches got a replacement that differs from them
Differing(s, ms, reps) == Cardinality({k \in 1..Len(ms) : reps[k] # Matched(s, ms[k])})

\* the iteration of rule name on the text before, which found ms and replaced them
\* by reps, left the text after and the statistics st2 from st1
IsRuleStep(name, before, after, st1, st2, ms, reps) ==
  /\ IsLeftmostScan(ms, CloneRegex(PatternsGet(name)), before)
  /\ IsSpliceOf(after, before, ms, reps)
  /\ st1 # Null =>
       /\ st2.total = st1.total + Differing(before, ms, reps)
       /\ IF Differing(before, ms, reps) > 0
            THEN st2.byType[name] = Differing(before, ms, reps)
            ELSE st2 = st1

\* C17: redact starts from the text it is given and a total of 0; every iteration
\* scans the text the iterations before it left for the successive leftmost
\* matches of its rule, replaces each by what the replacer of the rule returns and
\* counts the matches whose replacement differs from them; redact returns the text
\* and the statistics the last iteration left, so a text no rule matches comes
\* back unchanged with a total of 0
C17_OrderedFold ==
  [][/\ (op' = "redact" /\ pc # "loop" /\ pc' = "loop") =>
          /\ result' = text'.value
          /\ idx' = 1
          /\ stats' # Null => stats'.total = 0 /\ DOMAIN stats'.byType = {}
     /\ Iteration("redact") =>
          IsRuleStep(activePatterns[idx], result, result', stats, stats',
                     Scan(CloneRegex(PatternsGet(activePatterns[idx])), result, 0),
                     Replacements(activePatterns[idx], result,
                                  Scan(CloneRegex(PatternsGet(activePatterns[idx])),
                                       result, 0)))
     /\ (op = "redact" /\ pc = "loop" /\ pc' = "returned") =>
          /\ idx = Len(activePatterns) + 1
          /\ ret'.text = result
          /\ stats # Null => ret'.stats = stats]_vars

\* redact returned a text in which two rules, one after the other, replaced a
\* match each
C17_Witness ==
  /\ Returned("redact")
  /\ ~piped
  /\ DefaultPolicy(options)
  /\ ret.text # text.value
  /\ ret.stats.total = 2
  /\ DOMAIN ret.stats.byType = {"urlWithCreds", "email"}

\* the positions of the characters of s
Positions(s) == 1..Len(s)

\* what one more rule leaves of the text and of its marks: a mark tells that the
\* character was matched by a rule or put there by one
MarkedStep(name, st) ==
  LET ms == Scan(CloneRegex(PatternsGet(name)), st.text, 0)
      reps == Replacements(name, st.text, ms)
  IN [text |-> Splice(st.text, ms, reps, 1, 0),
      marks |-> Splice(st.marks, ms,
                       [k \in 1..Len(ms) |-> [p \in Positions(reps[k]) |-> TRUE]], 1, 0)]

\* the text and its marks after the first k of the rules names were applied to s
RECURSIVE MarkedAfter(_, _, _)
MarkedAfter(names, k, s) ==
  IF k = 0
    THEN [text |-> s, marks |-> [p \in Positions(s) |-> FALSE]]
    ELSE MarkedStep(names[k], MarkedAfter(names, k - 1, s))

\* no match of ms holds a marked character
AvoidsMarks(ms, marks) ==
  \A k \in 1..Len(ms) : \A p \in (ms[k].index + 1)..ms[k].end : ~marks[p]

\* C18: in a call of redact whose list holds no rule twice, no match of a rule
\* holds a character that a rule applied before it matched or put there
C18_NoRematch ==
  [][(/\ Iteration("redact")
      /\ \A i, j \in 1..Len(activePatterns) :
           i # j => activePatterns[i] # activePatterns[j]) =>
       AvoidsMarks(Scan(CloneRegex(PatternsGet(activePatterns[idx])), result, 0),
                   MarkedAfter(activePatterns, idx - 1, text.value).marks)]_vars

\* how many distinct characters m has
DistinctChars(m) == Cardinality({SubSeq(m, p, p) : p \in Positions(m)})

\* what the rule of the secrets makes of the match m, by the rule of C19
SecretReplacement(name, m) ==
  IF name = "hexSecret"
    THEN "[HEX_SECRET]"
    ELSE IF DistinctChars(m) >= 16 THEN "[AWS_SECRET]" ELSE m

\* C19: an iteration of awsSecret replaces a match by [AWS_SECRET] and counts it
\* when the match has 16 distinct characters or more, and leaves it in the text
\* and does not count it when it has 15 or fewer; an iteration of hexSecret
\* replaces every match by [HEX_SECRET] and counts it
C19_SecretThreshold ==
  [][(Iteration("redact") /\ activePatterns[idx] \in {"awsSecret", "hexSecret"}) =>
       IsRuleStep(activePatterns[idx], result, result', stats, stats',
                  Scan(CloneRegex(PatternsGet(activePatterns[idx])), result, 0),
                  [k \in 1..Len(MatchesIn(activePatterns[idx], result)) |->
                     SecretReplacement(activePatterns[idx],
                                       MatchesIn(activePatterns[idx], result)[k])])]_vars

\* awsSecret left the candidate of 15 distinct characters in the text and replaced
\* the one of 16, and hexSecret then replaced the candidate awsSecret had left
C19_Witness ==
  /\ Returned("redact")
  /\ text.value = LowEntropy40 \o " " \o HighEntropy40
  /\ ret.text = "[HEX_SECRET] [AWS_SECRET]"
  /\ ret.stats.byType["awsSecret"] = 1
  /\ ret.stats.byType["hexSecret"] = 1

C16_ExitCode ==
  /\ (cpc = "exited" /\ op = "detect" /\ pc = "returned") =>
       /\ exitCode \in {0, 1}
       /\ exitCode = 1 <=> ret.hasSensitiveData
  /\ pc = "threw" => stdout = <<>> /\ files = <<>>
  /\ (cpc = "exited" /\ pc = "threw") =>
       /\ exitCode # 0
       /\ stderr = <<"Error: " \o err.message>>

C16_Witness ==
  /\ cpc = "exited"
  /\ op = "detect"
  /\ pc = "returned"
  /\ ret.hasSensitiveData
  /\ exitCode = 1
  /\ Len(stdout) = 1

\* the run of main ended in the catch block
C16_Caught == cpc = "exited" /\ pc = "threw" /\ exitCode = 1

ValueOptions == {"-i", "--include", "-x", "--exclude", "-o", "--output"}

\* av[j] is the value of the option before it
RECURSIVE IsValue(_, _)
IsValue(av, j) == j > 2 /\ av[j] \in ValueOptions /\ ~IsValue(av, j - 1)

\* the positions, counted from 0, of the arguments that are not values
Unconsumed(av) == {j \in 2..(Len(av) - 1) : ~IsValue(av, j)}

Present(av, names) == \E j \in Unconsumed(av) : av[j + 1] \in names

\* the arguments that can be the file
FileArgs(av) == {j \in Unconsumed(av) : ~StartsWith(av[j + 1], "-")}

Least(S) == CHOOSE j \in S : \A k \in S : j <= k

Greatest(S) == CHOOSE j \in S : \A k \in S : j >= k

FlagsAsGiven(a, av) ==
  /\ a.help = Present(av, {"-h", "--help"})
  /\ a.version = Present(av, {"-v", "--version"})
  /\ a.list = Present(av, {"-l", "--list"})
  /\ a.detect = Present(av, {"-d", "--detect"})
  /\ a.stats = Present(av, {"-s", "--stats"})
  /\ a.quiet = Present(av, {"-q", "--quiet"})
  /\ a.all = Present(av, {"-a", "--all"})

\* the first argument that is no value and has no dash in front is the file
FirstIsFile(a, av) ==
  IF FileArgs(av) = {} THEN a.file = Null ELSE a.file = Str(av[Least(FileArgs(av)) + 1])

\* the list of -i or -x: that of the last such option with a value that is not
\* empty is the value split and trimmed; without any value the list is empty
ListAsGiven(list, av, names) ==
  LET given == {j \in Unconsumed(av) : av[j + 1] \in names}
      valued == {j \in given : Truthy(ArgvAt(av, j + 1))}
  IN /\ valued # {} /\ Greatest(valued) = Greatest(given) =>
          list = SplitTrim(av[Greatest(valued) + 2])
     /\ given = {} => list = <<>>

\* an option -i or -x at the end, its value missing, leaves the list empty
MissingLeavesEmpty(list, av, names) ==
  (Len(av) - 1 \in Unconsumed(av) /\ av[Len(av)] \in names) => list = <<>>

OutputAsGiven(a, av) ==
  LET given == {j \in Unconsumed(av) : av[j + 1] \in {"-o", "--output"}}
  IN IF given = {} THEN a.output = Null ELSE a.output = ArgvAt(av, Greatest(given) + 1)

\* C20: after parseArgs, for every argument vector: the argument that follows
\* -i, -x or -o is that option's value and neither a flag nor the file; a
\* missing value leaves the list of -i or -x empty and the output undefined; the
\* first argument that is no value and does not start with '-' is the file, and
\* later ones are ignored; flags that are not present are false.
C20_ParseArgs ==
  Parsed =>
    /\ FlagsAsGiven(args, argv)
    /\ FirstIsFile(args, argv)
    /\ ListAsGiven(args.include, argv, {"-i", "--include"})
    /\ ListAsGiven(args.exclude, argv, {"-x", "--exclude"})
    /\ MissingLeavesEmpty(args.include, argv, {"-i", "--include"})
    /\ MissingLeavesEmpty(args.exclude, argv, {"-x", "--exclude"})
    /\ OutputAsGiven(args, argv)

C20_Flags == Parsed => FlagsAsGiven(args, argv)

C20_File == Parsed => FirstIsFile(args, argv)

C20_Lists ==
  Parsed =>
    /\ ListAsGiven(args.include, argv, {"-i", "--include"})
    /\ ListAsGiven(args.exclude, argv, {"-x", "--exclude"})

C20_Missing ==
  Parsed =>
    /\ MissingLeavesEmpty(args.include, argv, {"-i", "--include"})
    /\ MissingLeavesEmpty(args.exclude, argv, {"-x", "--exclude"})

C20_Output == Parsed => OutputAsGiven(args, argv)

====
